---- MODULE Spec2Model ----
(***************************************************************************)
(* A model of dskrypa/asyncio_http_server:                                 *)
(*   lib/utils.py           the two exception-suppression context managers *)
(*   lib/log_handling.py    LogManager, over the parts of the standard     *)
(*                          logging module and of the file system it uses  *)
(*   asyncio_server_test.py the route registry and TestServer              *)
(* Three specifications share the variables: UtilSpec, Spec (LogManager)   *)
(* and ServerSpec.  Each leaves the other parts' variables unchanged.      *)
(***************************************************************************)
EXTENDS Integers, Sequences, FiniteSets, TLC

VARIABLES
    level,              \* logging.Logger.level of each logger
    handlers,           \* logging.Logger.handlers of each logger
    _levelToName,       \* logging._levelToName
    _nameToLevel,       \* logging._nameToLevel
    managers,           \* every LogManager object constructed so far (index = identity)
    _default_instance,  \* LogManager._default_instance (0 is None)
    _instances,         \* LogManager._instances
    fs,                 \* the file system: path -> "absent" | "dir" | "file"
    sticky,             \* the directories chmod'ed to new_dir_permissions
    op,                 \* the last call made by the client program, with the arguments
                        \* the properties below refer to
    ret,                \* what that call returned or raised
    written,            \* the streams / files the last logged record was written to
    ops,                \* number of calls made so far
    given,              \* name -> the instance get_instance returned (and how often) since the
                        \* last LogManager construction
    cm,                 \* utils: the context manager call under way
    web_routes,         \* asyncio_server_test: the class-level route registry
    srv                 \* asyncio_server_test: the import / TestServer state

logVars == <<level, handlers, _levelToName, _nameToLevel, managers, _default_instance,
             _instances, fs, sticky, op, ret, written, ops, given>>
vars == <<level, handlers, _levelToName, _nameToLevel, managers, _default_instance,
          _instances, fs, sticky, op, ret, written, ops, given, cm, web_routes, srv>>

-----------------------------------------------------------------------------
(* Bounds of the model *)

\* calls of the client program that change the logging configuration
MaxOps == 3
\* the same, for the client program that uses the file handlers
MaxFileOps == 2
\* distinct values of int(time.time()) seen by init_default_logger
MaxTime == 1
\* requests served by one TestServer
MaxRequests == 12
\* classes passed to a context manager of lib.utils
MaxClasses == 2

-----------------------------------------------------------------------------
(* Python exceptions: the classes the code names or can meet *)

None == "None"
NoExc == "NoExc"

ExcBase(c) ==
    CASE c = "Exception" -> "BaseException"
      [] c = "KeyboardInterrupt" -> "BaseException"
      [] c = "InputValidationException" -> "Exception"
      [] c = "FatalRuntimeException" -> "Exception"
      [] c = "OSError" -> "Exception"
      [] c = "TypeError" -> "Exception"
      [] c = "FileNotFoundError" -> "OSError"
      [] c = "NotADirectoryError" -> "OSError"
      [] c = "FileExistsError" -> "OSError"
      [] OTHER -> "object"

RECURSIVE issubclass(_, _)
issubclass(c, d) ==
    IF c = d THEN TRUE
    ELSE IF c = "BaseException" \/ c = "object" THEN FALSE
    ELSE issubclass(ExcBase(c), d)

\* isinstance(e, exception_classes) for an exception of class e and a tuple of classes
isinstance(e, exception_classes) ==
    \E i \in 1..Len(exception_classes) : issubclass(e, exception_classes[i])

-----------------------------------------------------------------------------
(* lib/utils.py *)

\* ignore_exceptions catching by exact class only, not by subclass
ignore_exceptions_exact(exception_classes, raised) ==
    IF raised = NoExc THEN [outcome |-> "completed", exc |-> NoExc]
    ELSE IF \E i \in 1..Len(exception_classes) : raised = exception_classes[i]
         THEN [outcome |-> "suppressed", exc |-> NoExc]
         ELSE [outcome |-> "propagated", exc |-> raised]

\* Outcome of `with ignore_exceptions(*exception_classes): <body raising raised>`
ignore_exceptions(exception_classes, raised) ==
    IF raised = NoExc THEN [outcome |-> "completed", exc |-> NoExc]
    ELSE IF isinstance(raised, exception_classes)
         THEN [outcome |-> "suppressed", exc |-> NoExc]
         ELSE [outcome |-> "propagated", exc |-> raised]

\* ignore_exceptions_except without its re-raise: every Exception is swallowed
ignore_exceptions_except_all(exception_classes, raised) ==
    IF raised = NoExc THEN [outcome |-> "completed", exc |-> NoExc]
    ELSE IF isinstance(raised, <<"Exception">>)
         THEN [outcome |-> "suppressed", exc |-> NoExc]
         ELSE [outcome |-> "propagated", exc |-> raised]

\* Outcome of `with ignore_exceptions_except(*exception_classes): <body raising raised>`
ignore_exceptions_except(exception_classes, raised) ==
    IF raised = NoExc THEN [outcome |-> "completed", exc |-> NoExc]
    ELSE IF isinstance(raised, <<"Exception">>)
         THEN IF isinstance(raised, exception_classes)
              THEN [outcome |-> "propagated", exc |-> raised]
              ELSE [outcome |-> "suppressed", exc |-> NoExc]
         ELSE [outcome |-> "propagated", exc |-> raised]

-----------------------------------------------------------------------------
(* The standard logging module, as far as LogManager drives it *)

NOTSET == 0
DEBUG == 10
VERBOSE == 19
INFO == 20
WARNING == 30
ERROR == 40
CRITICAL == 50

\* logging.lastResort, created when logging is imported, is in logging._handlerList
LastResortHandlers == 1

RootLogger == "root"
Names == {"a"}
AllNames == {None} \cup Names
Loggers == {RootLogger} \cup Names

\* logging.getLogger(name): no name is the root logger
getLogger(name) == IF name = None THEN RootLogger ELSE name

\* Logger.parent: "a.b" hangs below "a", every other logger below the root
Parent(logger) == IF logger = "a.b" THEN "a" ELSE RootLogger

stdout == <<"<stdout>">>
stderr == <<"<stderr>">>
Streams == {stdout, stderr}

DictSet(d, k, v) == [x \in (DOMAIN d) \cup {k} |-> IF x = k THEN v ELSE d[x]]

\* `key in dict` for a key of Python type keyType and a dict keyed by dictKeyType
DictHasKey(keyType, key, dictKeyType, dict) ==
    keyType = dictKeyType /\ key \in DOMAIN dict

InitLevelToName ==
    [n \in {NOTSET, DEBUG, INFO, WARNING, ERROR, CRITICAL} |->
        CASE n = NOTSET -> "NOTSET" [] n = DEBUG -> "DEBUG" [] n = INFO -> "INFO"
          [] n = WARNING -> "WARNING" [] n = ERROR -> "ERROR" [] OTHER -> "CRITICAL"]

InitNameToLevel ==
    [n \in {"NOTSET", "DEBUG", "INFO", "WARNING", "WARN", "ERROR", "CRITICAL", "FATAL"} |->
        CASE n = "NOTSET" -> NOTSET [] n = "DEBUG" -> DEBUG [] n = "INFO" -> INFO
          [] n = "WARNING" -> WARNING [] n = "WARN" -> WARNING [] n = "ERROR" -> ERROR
          [] OTHER -> CRITICAL]

\* logging.addLevelName(level, levelName)
addLevelName(s, level_number, level_name) ==
    [s EXCEPT !.levelToName = DictSet(@, level_number, level_name),
              !.nameToLevel = DictSet(@, level_name, level_number)]

\* logging.getLevelName(name) for a level name: its number; -1 stands for the
\* string "Level <name>" that an unregistered name yields
getLevelName(s, level_name) ==
    IF level_name \in DOMAIN s.nameToLevel THEN s.nameToLevel[level_name] ELSE -1

RECURSIVE SumLen(_, _)
SumLen(hs, S) ==
    IF S = {} THEN 0
    ELSE LET x == CHOOSE y \in S : TRUE IN Len(hs[x]) + SumLen(hs, S \ {x})

\* len(logging._handlerList): weak references to every live handler
HandlerListLen(s) == LastResortHandlers + SumLen(s.handlers, DOMAIN s.handlers)

RECURSIVE getEffectiveLevel(_, _)
\* Logger.getEffectiveLevel: the first level that is set, walking up to the root
getEffectiveLevel(s, logger) ==
    IF s.level[logger] # NOTSET THEN s.level[logger]
    ELSE IF logger = RootLogger THEN NOTSET
    ELSE getEffectiveLevel(s, Parent(logger))

isEnabledFor(s, logger, lvl) == lvl >= getEffectiveLevel(s, logger)

-----------------------------------------------------------------------------
(* The file system under os.path.exists / isdir / makedirs / chmod / open *)

\* os.path.dirname of a path held as its sequence of components ("/" first if absolute)
dirname(path) == SubSeq(path, 1, Len(path) - 1)

VarTmp == <<"/", "var", "tmp">>

\* "/var/tmp/{calling_module}_{user}_{int(time.time())}.log"
DefaultLogPath(t) == VarTmp \o <<"module_user_" \o ToString(t) \o ".log">>

AppLogPath == VarTmp \o <<"app", "x.log">>

\* log paths the client passes
LogPaths ==
    { AppLogPath,                    \* parent absent below /var/tmp
      <<"/", "f", "x.log">>,         \* parent is a regular file
      <<"/", "f", "g", "x.log">>,    \* parent absent, grandparent a regular file
      <<"x.log">> }                  \* no directory part: dirname is ""

Times == 1..MaxTime

FsNodes ==
    { <<"/">>, <<"/", "var">>, VarTmp, VarTmp \o <<"app">>, <<"/", "f">>, <<"/", "f", "g">>,
      AppLogPath } \cup { DefaultLogPath(t) : t \in Times }

exists(fsx, path) == path \in DOMAIN fsx /\ fsx[path] # "absent"
isdir(fsx, path) == path \in DOMAIN fsx /\ fsx[path] = "dir"

\* os.mkdir(path)
mkdir(fsx, path) ==
    IF path = <<>> THEN [fs |-> fsx, exc |-> "FileNotFoundError"]
    ELSE IF exists(fsx, path) THEN [fs |-> fsx, exc |-> "FileExistsError"]
    ELSE IF exists(fsx, dirname(path)) /\ ~isdir(fsx, dirname(path))
         THEN [fs |-> fsx, exc |-> "NotADirectoryError"]
    ELSE IF ~isdir(fsx, dirname(path)) THEN [fs |-> fsx, exc |-> "FileNotFoundError"]
    ELSE [fs |-> [fsx EXCEPT ![path] = "dir"], exc |-> NoExc]

RECURSIVE makedirs(_, _)
\* os.makedirs(path): the missing ancestors first, then the directory itself
makedirs(fsx, path) ==
    LET head == dirname(path)
        up == IF head # <<>> /\ path # <<"/">> /\ ~exists(fsx, head)
              THEN makedirs(fsx, head)
              ELSE [fs |-> fsx, exc |-> NoExc]
    IN  IF up.exc \notin {NoExc, "FileExistsError"} THEN up
        ELSE mkdir(up.fs, path)

\* str.startswith("/var/tmp/") of a directory path
StartsWithVarTmp(path) == Len(path) > Len(VarTmp) /\ SubSeq(path, 1, Len(VarTmp)) = VarTmp

-----------------------------------------------------------------------------
(* lib/log_handling.py: LogManager.  Each method is an operator from the    *)
(* program state s (a record of the variables, with the value returned in  *)
(* s.val and the exception raised in s.exc) to the state it leaves.        *)

NoArg == "NoArg"

\* the attributes every LogManager has once __init__ has reached line 52
BaseAttributes ==
    { "_default_instance", "_instances", "get_instance", "_set_instance", "get_log_funcs",
      "create_default_stream_logger", "create_default_logger", "set_timezone_alias",
      "create_filter", "create_formatter", "_prep_log_dir", "add_level", "_add_log_function",
      "add_handler", "init_default_stream_logger", "init_default_logger",
      "name", "tz_aliases", "logger", "defaults", "log_funcs", "stdout_lvl",
      "debug", "info", "warning", "error", "critical", "exception", "log" }

hasattr(s, self, attr) == attr \in BaseAttributes \cup s.managers[self].funcs

raise(s, exc) == [s EXCEPT !.exc = exc]

\* LogManager._set_instance(name, instance)
_set_instance(s, name, instance) ==
    IF name = None
    THEN [s EXCEPT !.default_instance = instance]
    ELSE [s EXCEPT !.instances = DictSet(@, name, instance)]

\* LogManager._add_log_function(level_number, fn_name)
_add_log_function(s, self, level_number, fn_name) ==
    [s EXCEPT !.managers[self].funcs = @ \cup {fn_name}]

\* LogManager.add_level(level_number, level_name, fn_name)
add_level(s, self, level_number, level_name, fn_name) ==
    LET fn == IF fn_name = None THEN level_name ELSE fn_name
    IN  IF ~hasattr(s, self, fn)
        THEN LET s1 == IF /\ ~DictHasKey("str", level_name, "str", s.nameToLevel)
                          /\ ~DictHasKey("int", level_number, "str", s.nameToLevel)
                       THEN addLevelName(s, level_number, level_name)
                       ELSE s
             IN  _add_log_function(s1, self, level_number, fn)
        ELSE raise(s, "InputValidationException")

\* LogManager.__init__(name, replace_handlers=...)
LogManager__init__(s, name, replace_handlers) ==
    LET self == Len(s.managers) + 1
        logger == getLogger(name)
        s1 == IF name # None /\ HandlerListLen(s) < 1
              THEN [s EXCEPT !.level[RootLogger] = NOTSET]
              ELSE s
        s2 == IF replace_handlers THEN [s1 EXCEPT !.handlers[logger] = <<>>] ELSE s1
        s3 == [s2 EXCEPT !.level[logger] = NOTSET,
                         !.managers = Append(@, [name |-> name, funcs |-> {}])]
        s4 == add_level(s3, self, VERBOSE, "VERBOSE", "verbose")
        s5 == [s4 EXCEPT !.exc = ignore_exceptions(<<"InputValidationException">>, s4.exc).exc]
    IN  IF s5.exc # NoExc THEN s5
        ELSE [_set_instance(s5, name, self) EXCEPT !.val = self]

\* LogManager(*args, **kwargs): the name given by position and the one given by keyword
Construct(s, pos_name, kw_name, replace_handlers) ==
    IF pos_name # NoArg /\ kw_name # NoArg THEN raise(s, "TypeError")
    ELSE LogManager__init__(s, IF pos_name # NoArg THEN pos_name
                               ELSE IF kw_name # NoArg THEN kw_name ELSE None,
                            replace_handlers)

\* stdout_filter with the boundary off by one: WARNING passes it too
stdout_filter_inclusive(lvl) == lvl <= WARNING

\* the filter functions of init_default_stream_logger
stderr_filter(lvl) == lvl >= WARNING

stdout_filter(lvl) == lvl < WARNING

\* CustomLogFilter.filter(record) of the filter LogManager.create_filter built
\* (NoArg: the handler has no filter)
create_filter(filter, lvl) ==
    CASE filter = "stderr_filter" -> stderr_filter(lvl)
      [] filter = "stdout_filter" -> stdout_filter(lvl)
      [] OTHER -> TRUE

\* LogManager._prep_log_dir(log_path); chmod_ok: whether os.chmod succeeds
_prep_log_dir(s, log_path, chmod_ok) ==
    LET log_dir == dirname(log_path)
    IN  IF exists(s.fs, log_dir)
        THEN IF ~isdir(s.fs, log_dir) THEN raise(s, "InputValidationException") ELSE s
        ELSE LET made == makedirs(s.fs, log_dir)
             IN  IF made.exc # NoExc THEN [s EXCEPT !.fs = made.fs, !.exc = made.exc]
                 ELSE [s EXCEPT !.fs = made.fs,
                                !.sticky = IF StartsWithVarTmp(log_dir) /\ chmod_ok
                                           THEN @ \cup {log_dir} ELSE @]

\* LogManager.add_handler(destination, level, fmt, filter=filter, rotate=rotate,
\* formatter=formatter)
add_handler(s, self, destination, lvl, fmt, filter, rotate, formatter, chmod_ok) ==
    LET entry_fmt == IF fmt # NoArg THEN fmt ELSE "%(message)s"
        fclass == IF formatter # NoArg THEN formatter ELSE "logging.Formatter"
        s1 == IF destination \in Streams THEN s ELSE _prep_log_dir(s, destination, chmod_ok)
        cls == IF destination \in Streams THEN "StreamHandler"
               ELSE IF rotate THEN "TimedRotatingFileHandler" ELSE "FileHandler"
        \* a file handler opens its file for appending
        s2 == IF destination \in Streams THEN s1
              ELSE [s1 EXCEPT !.fs[destination] = "file"]
        handler == [dest |-> destination, cls |-> cls, level |-> lvl, fmt |-> entry_fmt,
                    filter |-> filter, formatter |-> fclass]
        logger == getLogger(s.managers[self].name)
    IN  IF s1.exc # NoExc THEN s1
        ELSE IF lvl < 0 THEN raise(s2, "ValueError")
        ELSE [s2 EXCEPT !.handlers[logger] = Append(@, handler)]

\* LogManager.init_default_stream_logger(debug, verbose)
init_default_stream_logger(s, self, debug, verbose) ==
    LET lvl0 == IF debug THEN DEBUG ELSE INFO
        stdout_lvl == IF verbose THEN getLevelName(s, "VERBOSE") ELSE lvl0
        s1 == add_handler(s, self, stdout, stdout_lvl, NoArg, "stdout_filter", TRUE, NoArg, TRUE)
    IN  IF s1.exc # NoExc THEN s1
        ELSE add_handler(s1, self, stderr, INFO, "%(levelname)s %(message)s",
                         "stderr_filter", TRUE, "red_formatter", TRUE)

\* LogManager.init_default_logger(debug, verbose, log_path); t: int(time.time())
init_default_logger(s, self, debug, verbose, log_path, t, chmod_ok) ==
    LET s1 == init_default_stream_logger(s, self, debug, verbose)
        path == IF log_path = <<>> THEN DefaultLogPath(t) ELSE log_path
        s2 == add_handler(s1, self, path, DEBUG,
                          "%(asctime)s %(levelname)s %(funcName)s:%(lineno)d %(message)s",
                          NoArg, TRUE, "cr_stripper", chmod_ok)
    IN  IF s1.exc # NoExc THEN s1 ELSE s2

\* LogManager.create_default_stream_logger(debug, verbose, *args, **kwargs)
create_default_stream_logger(s, debug, verbose, pos_name, kw_name, replace_handlers) ==
    LET s1 == Construct(s, pos_name, kw_name, replace_handlers)
        lm == s1.val
        s2 == init_default_stream_logger(s1, lm, debug, verbose)
    IN  IF s1.exc # NoExc THEN s1 ELSE [s2 EXCEPT !.val = IF s2.exc = NoExc THEN lm ELSE 0]

\* LogManager.create_default_logger(debug, verbose, log_path, *args, **kwargs)
create_default_logger(s, debug, verbose, log_path, kw_name, replace_handlers, t, chmod_ok) ==
    LET s1 == Construct(s, NoArg, kw_name, replace_handlers)
        lm == s1.val
        s2 == init_default_logger(s1, lm, debug, verbose, log_path, t, chmod_ok)
    IN  IF s1.exc # NoExc THEN s1 ELSE [s2 EXCEPT !.val = IF s2.exc = NoExc THEN lm ELSE 0]

\* get_instance without the look-up of the registry: a new LogManager on every call
get_instance_uncached(s, name, debug, verbose, pos_name, replace_handlers) ==
    LET s1 == create_default_stream_logger(s, debug, verbose, pos_name,
                                           IF name = None THEN NoArg ELSE name,
                                           replace_handlers)
    IN  IF s1.exc # NoExc THEN s1
        ELSE [s1 EXCEPT !.val = IF name = None THEN s1.default_instance
                                ELSE s1.instances[name]]

\* LogManager.get_instance(name, *args, **kwargs), args = (debug, verbose, pos_name)
get_instance(s, name, debug, verbose, pos_name, replace_handlers) ==
    IF name = None
    THEN LET s1 == IF s.default_instance = 0
                   THEN create_default_stream_logger(s, debug, verbose, pos_name, NoArg,
                                                     replace_handlers)
                   ELSE s
         IN  IF s1.exc # NoExc THEN s1 ELSE [s1 EXCEPT !.val = s1.default_instance]
    ELSE LET s1 == IF ~DictHasKey("str", name, "str", s.instances)
                   THEN create_default_stream_logger(s, debug, verbose, pos_name, name,
                                                     replace_handlers)
                   ELSE s
         IN  IF s1.exc # NoExc THEN s1
             ELSE IF ~DictHasKey("str", name, "str", s1.instances) THEN raise(s1, "KeyError")
             ELSE [s1 EXCEPT !.val = s1.instances[name]]

RECURSIVE callHandlers(_, _, _, _)
\* Logger.callHandlers: the destinations a record of level lvl is emitted to, from
\* logger upwards (Handler.handle applies the handler's filter)
callHandlers(s, logger, lvl, i) ==
    IF i > Len(s.handlers[logger])
    THEN IF logger = RootLogger THEN <<>> ELSE callHandlers(s, Parent(logger), lvl, 1)
    ELSE LET h == s.handlers[logger][i]
             here == IF lvl >= h.level /\ create_filter(h.filter, lvl)
                     THEN <<h.dest>> ELSE <<>>
         IN  here \o callHandlers(s, logger, lvl, i + 1)

RECURSIVE handlersFound(_, _)
\* the `found` count of Logger.callHandlers
handlersFound(s, logger) ==
    Len(s.handlers[logger]) +
        (IF logger = RootLogger THEN 0 ELSE handlersFound(s, Parent(logger)))

\* self.logger.log(lvl, msg), as the log functions bound at lines 49-51 and 172-174 call it
log(s, self, lvl) ==
    LET logger == getLogger(s.managers[self].name)
    IN  IF ~isEnabledFor(s, logger, lvl) THEN <<>>
        ELSE IF handlersFound(s, logger) = 0
             THEN IF lvl >= WARNING THEN <<stderr>> ELSE <<>>
             ELSE callHandlers(s, logger, lvl, 1)

-----------------------------------------------------------------------------
(* The client program: one action per call it can make on LogManager *)

Cur ==
    [level |-> level, handlers |-> handlers, levelToName |-> _levelToName,
     nameToLevel |-> _nameToLevel, managers |-> managers,
     default_instance |-> _default_instance, instances |-> _instances,
     fs |-> fs, sticky |-> sticky, exc |-> NoExc, val |-> 0]

Call(fn, self, name, lvl, debug, verbose, path, arg) ==
    [fn |-> fn, self |-> self, name |-> name, lvl |-> lvl, debug |-> debug,
     verbose |-> verbose, path |-> path, arg |-> arg]

NoCall == Call("import", 0, None, 0, FALSE, FALSE, <<>>, NoArg)

Ids == 1..Len(managers)

\* no get_instance call has returned an instance since the last construction
NothingGiven == [n \in AllNames |-> [inst |-> 0, hits |-> 0]]

\* the state s a call leaves becomes the program state; the call o and its result are kept
Commit(s, o) ==
    /\ ops < MaxOps
    /\ ops' = ops + 1
    /\ level' = s.level
    /\ handlers' = s.handlers
    /\ _levelToName' = s.levelToName
    /\ _nameToLevel' = s.nameToLevel
    /\ managers' = s.managers
    /\ _default_instance' = s.default_instance
    /\ _instances' = s.instances
    /\ fs' = s.fs
    /\ sticky' = s.sticky
    /\ op' = o
    /\ ret' = [val |-> IF s.exc = NoExc THEN s.val ELSE 0, exc |-> s.exc]
    /\ written' = <<>>
    /\ given' = LET kept == IF Len(s.managers) > Len(managers) THEN NothingGiven ELSE given
                IN  IF o.fn = "get_instance" /\ s.exc = NoExc /\ s.val # 0
                    THEN [kept EXCEPT ![o.name] = [inst |-> s.val, hits |-> @.hits + 1]]
                    ELSE kept
    /\ UNCHANGED <<cm, web_routes, srv>>

\* lm = LogManager(name, replace_handlers=replace_handlers)
NewLogManager ==
    \E name \in AllNames, replace_handlers \in BOOLEAN :
        Commit(LogManager__init__(Cur, name, replace_handlers),
               Call("LogManager", 0, name, 0, FALSE, FALSE, <<>>, NoArg))

\* LogManager.get_instance(name, debug, verbose[, pos_name])
CallGetInstance ==
    \E name \in AllNames, debug \in BOOLEAN, verbose \in BOOLEAN,
       pos_name \in {NoArg} \cup Names :
        Commit(get_instance(Cur, name, debug, verbose, pos_name, TRUE),
               Call("get_instance", 0, name, 0, FALSE, FALSE, <<>>, NoArg))

\* LogManager.create_default_stream_logger(debug, verbose, name=name,
\* replace_handlers=replace_handlers)
CallCreateDefaultStreamLogger ==
    \E name \in AllNames, debug \in BOOLEAN, verbose \in BOOLEAN, replace_handlers \in BOOLEAN :
        Commit(create_default_stream_logger(Cur, debug, verbose, NoArg, name, replace_handlers),
               Call("create_default_stream_logger", 0, name, 0, debug, verbose, <<>>, NoArg))

\* lm.init_default_stream_logger(debug, verbose)
CallInitDefaultStreamLogger ==
    \E self \in Ids, debug \in BOOLEAN, verbose \in BOOLEAN :
        Commit(init_default_stream_logger(Cur, self, debug, verbose),
               Call("init_default_stream_logger", self, managers[self].name, 0, debug,
                    verbose, <<>>, NoArg))

\* lm.add_handler(destination, lvl, rotate=rotate)
CallAddHandler(Destinations) ==
    \E self \in Ids, destination \in Destinations, lvl \in {INFO, DEBUG},
       rotate \in BOOLEAN, chmod_ok \in BOOLEAN :
        /\ destination \in Streams => rotate /\ chmod_ok
        /\ Commit(add_handler(Cur, self, destination, lvl, NoArg, NoArg, rotate, NoArg, chmod_ok),
                  Call("add_handler", self, managers[self].name, lvl, FALSE, FALSE,
                       destination, NoArg))

\* the add_level calls of the client: a registered name, a registered number, a new
\* level, and a function name the LogManager already has
AddLevelCalls ==
    { <<25, "VERBOSE", "notice">>, <<INFO, "NOTICE", "notice">>,
      <<25, "NOTICE", "notice">>, <<25, "NOTICE", "info">> }

\* lm.add_level(level_number, level_name, fn_name)
CallAddLevel ==
    \E self \in Ids, call \in AddLevelCalls :
        Commit(add_level(Cur, self, call[1], call[2], call[3]),
               Call("add_level", self, call[2], call[1], FALSE, FALSE, <<>>, call[3]))

LogLevels == {DEBUG, VERBOSE, INFO, WARNING}

\* lm.debug(msg), lm.verbose(msg), lm.info(msg), lm.warning(msg): the configuration
\* stays as it is, the record goes to `written`
CallLog ==
    \E self \in Ids, lvl \in LogLevels :
        /\ written' = log(Cur, self, lvl)
        /\ op' = Call("log", self, managers[self].name, lvl, FALSE, FALSE, <<>>, NoArg)
        /\ ret' = [val |-> 0, exc |-> NoExc]
        /\ UNCHANGED <<level, handlers, _levelToName, _nameToLevel, managers,
                       _default_instance, _instances, fs, sticky, ops, given,
                       cm, web_routes, srv>>

\* /var/tmp is there, /f is a regular file
StdFs ==
    [p \in FsNodes |->
        IF p \in {<<"/">>, <<"/", "var">>, VarTmp} THEN "dir"
        ELSE IF p = <<"/", "f">> THEN "file" ELSE "absent"]

\* / is a directory, /f a regular file, /var and /var/tmp may be missing
InitFs ==
    \E var \in {"absent", "dir"}, tmp \in {"absent", "dir"} :
        /\ tmp = "dir" => var = "dir"
        /\ fs = [StdFs EXCEPT ![<<"/", "var">>] = var, ![VarTmp] = tmp]

\* the other parts at rest
UtilIdle == cm = [classes |-> <<>>, raised |-> NoExc, ignore |-> "idle", ignore_exc |-> NoExc,
                  except |-> "idle", except_exc |-> NoExc]
ServerIdle ==
    /\ web_routes = <<>>
    /\ srv = [pc |-> "import", get_root |-> "undefined", router |-> {}, counter |-> 0,
              port |-> 0, listening |-> FALSE,
              last |-> [method |-> "none", path |-> "none", status |-> 0]]

\* logging and lib.log_handling just imported
LogInit ==
    /\ level = [l \in Loggers |-> IF l = RootLogger THEN WARNING ELSE NOTSET]
    /\ handlers = [l \in Loggers |-> <<>>]
    /\ _levelToName = InitLevelToName
    /\ _nameToLevel = InitNameToLevel
    /\ managers = <<>>
    /\ _default_instance = 0
    /\ _instances = <<>>
    /\ sticky = {}
    /\ op = NoCall
    /\ ret = [val |-> 0, exc |-> NoExc]
    /\ written = <<>>
    /\ ops = 0
    /\ given = NothingGiven

Init == LogInit /\ fs = StdFs /\ UtilIdle /\ ServerIdle

Next ==
    \/ NewLogManager
    \/ CallGetInstance
    \/ CallCreateDefaultStreamLogger
    \/ CallInitDefaultStreamLogger
    \/ CallAddHandler(Streams)
    \/ CallAddLevel
    \/ CallLog

Spec == Init /\ [][Next]_vars

-----------------------------------------------------------------------------
(* The client program using the file handlers *)

\* LogManager.create_default_logger(debug, verbose, log_path, name=name)
CallCreateDefaultLogger ==
    \E name \in AllNames, debug \in BOOLEAN, verbose \in BOOLEAN,
       log_path \in LogPaths \cup {<<>>}, t \in Times, chmod_ok \in BOOLEAN :
        Commit(create_default_logger(Cur, debug, verbose, log_path, name, TRUE, t, chmod_ok),
               Call("create_default_logger", 0, name, 0, debug, verbose, log_path, NoArg))

\* lm.init_default_logger(debug, verbose, log_path)
CallInitDefaultLogger ==
    \E self \in Ids, debug \in BOOLEAN, verbose \in BOOLEAN,
       log_path \in LogPaths \cup {<<>>}, t \in Times, chmod_ok \in BOOLEAN :
        Commit(init_default_logger(Cur, self, debug, verbose, log_path, t, chmod_ok),
               Call("init_default_logger", self, managers[self].name, 0, debug, verbose,
                    log_path, NoArg))

\* LogManager._prep_log_dir(log_path)
CallPrepLogDir ==
    \E log_path \in LogPaths \cup {DefaultLogPath(t) : t \in Times}, chmod_ok \in BOOLEAN :
        Commit(_prep_log_dir(Cur, log_path, chmod_ok),
               Call("_prep_log_dir", 0, None, 0, FALSE, FALSE, log_path, NoArg))

FileInit == LogInit /\ InitFs /\ UtilIdle /\ ServerIdle

FileNext ==
    \/ ops < MaxFileOps /\ NewLogManager
    \/ ops < MaxFileOps /\ CallCreateDefaultLogger
    \/ ops < MaxFileOps /\ CallInitDefaultLogger
    \/ ops < MaxFileOps /\ CallAddHandler(LogPaths)
    \/ ops < MaxFileOps /\ CallPrepLogDir
    \/ CallLog

FileSpec == FileInit /\ [][FileNext]_vars

-----------------------------------------------------------------------------
(* The client program of lib/utils.py: a with-block under each context     *)
(* manager, for the same class list and the same exception raised in the   *)
(* body                                                                    *)

ExcClasses ==
    { "BaseException", "Exception", "KeyboardInterrupt", "InputValidationException",
      "FatalRuntimeException", "OSError", "FileNotFoundError", "TypeError" }

RECURSIVE Tuples(_, _)
Tuples(S, n) ==
    IF n = 0 THEN {<<>>}
    ELSE LET shorter == Tuples(S, n - 1)
         IN  shorter \cup {Append(q, x) : q \in {r \in shorter : Len(r) = n - 1}, x \in S}

UtilInit ==
    /\ cm \in [classes : Tuples(ExcClasses, MaxClasses), raised : ExcClasses \cup {NoExc},
               ignore : {"body"}, ignore_exc : {NoExc}, except : {"body"}, except_exc : {NoExc}]
    /\ LogInit /\ fs = StdFs /\ ServerIdle

\* with ignore_exceptions(*classes): raise raised
WithIgnoreExceptions ==
    /\ cm.ignore = "body"
    /\ LET r == ignore_exceptions(cm.classes, cm.raised)
       IN  cm' = [cm EXCEPT !.ignore = r.outcome, !.ignore_exc = r.exc]
    /\ UNCHANGED <<logVars, web_routes, srv>>

\* with ignore_exceptions_except(*classes): raise raised
WithIgnoreExceptionsExcept ==
    /\ cm.except = "body"
    /\ LET r == ignore_exceptions_except(cm.classes, cm.raised)
       IN  cm' = [cm EXCEPT !.except = r.outcome, !.except_exc = r.exc]
    /\ UNCHANGED <<logVars, web_routes, srv>>

UtilNext == WithIgnoreExceptions \/ WithIgnoreExceptionsExcept

UtilSpec == UtilInit /\ [][UtilNext]_vars

-----------------------------------------------------------------------------
(* asyncio_server_test.py *)

\* route_registry(method): the registry that replaces the decorated method
route_registry(method) == <<>>

\* register whose decorate() forgets `return func`: the decorated name becomes None
register_no_return(registry, method, uri, func) ==
    LET actions == IF uri \in DOMAIN registry THEN registry[uri] ELSE <<>>
    IN  [registry |-> DictSet(registry, uri, DictSet(actions, method, func)),
         returned |-> None]

\* route_registry.<locals>.register(method, uri)(func): the registry afterwards, and
\* what the decorator returns
register(registry, method, uri, func) ==
    LET actions == IF uri \in DOMAIN registry THEN registry[uri] ELSE <<>>
    IN  [registry |-> DictSet(registry, uri, DictSet(actions, method, func)),
         returned |-> func]

\* TestServer.__init__: the routes added to self.app.router; getattr(self, server_method)
\* is what the class body bound to that name
TestServer__init__(s, registry, port) ==
    [s EXCEPT !.pc = "constructed",
              !.counter = 0,
              !.port = port,
              !.router = UNION { { <<http_method, uri,
                                      IF registry[uri][http_method] = "get_root"
                                      THEN s.get_root ELSE "AttributeError">> :
                                     http_method \in DOMAIN registry[uri] } :
                                   uri \in DOMAIN registry },
              !.listening = FALSE]

\* TestServer.get_root(req)
get_root(s, method, path) ==
    [s EXCEPT !.counter = @ + 1,
              !.last = [method |-> method, path |-> path, status |-> 200]]

\* the application's handler: the router picks the route of the request
handle(s, method, path) ==
    IF \E r \in s.router : r[1] = method /\ r[2] = path /\ r[3] = "get_root"
    THEN get_root(s, method, path)
    ELSE IF \E r \in s.router : r[2] = path
         THEN [s EXCEPT !.last = [method |-> method, path |-> path, status |-> 405]]
         ELSE [s EXCEPT !.last = [method |-> method, path |-> path, status |-> 404]]

\* class TestServer: `@route_registry def web_routes(self)`
DefineRegistry ==
    /\ srv.pc = "import"
    /\ web_routes' = route_registry("web_routes")
    /\ srv' = [srv EXCEPT !.pc = "class_body"]
    /\ UNCHANGED <<logVars, cm>>

\* class TestServer: `@web_routes.register("GET", "/") def get_root(self, req)`
DecorateGetRoot ==
    /\ srv.pc = "class_body"
    /\ LET r == register(web_routes, "GET", "/", "get_root")
       IN  /\ web_routes' = r.registry
           /\ srv' = [srv EXCEPT !.pc = "defined", !.get_root = r.returned]
    /\ UNCHANGED <<logVars, cm>>

\* TestServer(loop, port=port)
NewTestServer ==
    /\ srv.pc \in {"defined", "constructed"}
    /\ \E port \in {8888, 8080, 8000} : srv' = TestServer__init__(srv, web_routes, port)
    /\ UNCHANGED <<logVars, cm, web_routes>>

\* loop.run_until_complete(server.start())
Start ==
    /\ srv.pc = "constructed" /\ ~srv.listening
    /\ srv' = [srv EXCEPT !.listening = TRUE]
    /\ UNCHANGED <<logVars, cm, web_routes>>

\* a request arrives and is handled
Request ==
    /\ srv.pc = "constructed" /\ srv.listening
    /\ srv.counter < MaxRequests
    /\ \E method \in {"GET", "POST", "HEAD"}, path \in {"/", "/x"} :
           srv' = handle(srv, method, path)
    /\ UNCHANGED <<logVars, cm, web_routes>>

ServerInit == LogInit /\ fs = StdFs /\ UtilIdle /\ ServerIdle

ServerNext == DefineRegistry \/ DecorateGetRoot \/ NewTestServer \/ Start \/ Request

ServerSpec == ServerInit /\ [][ServerNext]_vars

-----------------------------------------------------------------------------
(* Properties of LogManager, checked under Spec *)

Range(seq) == {seq[i] : i \in 1..Len(seq)}

\* C1: once get_instance(name) has returned an instance, a later get_instance(name)
\* with no LogManager construction in between returns that same instance, constructs
\* no LogManager and leaves every logger's handler list as it was.
C1_GetInstanceIdempotent ==
    [][ \A name \in AllNames :
            (given[name].inst # 0 /\ ops' = ops + 1
                /\ op'.fn = "get_instance" /\ op'.name = name)
            => /\ ret' = [val |-> given[name].inst, exc |-> NoExc]
               /\ managers' = managers
               /\ handlers' = handlers ]_vars

\* a second get_instance call for the same name has returned the instance of the first
C1_Witness ==
    /\ op.fn = "get_instance"
    /\ given[op.name].hits >= 2
    /\ ret.val = given[op.name].inst

\* C2: no logger holds two handlers for the same destination.
C2_NoDoubleRegistration ==
    \A l \in Loggers : \A i, j \in 1..Len(handlers[l]) :
        i # j => handlers[l][i].dest # handlers[l][j].dest

\* C3: an add_level call whose level name or level number is already registered
\* leaves logging._levelToName and logging._nameToLevel unchanged.
C3_AddLevelGuarded ==
    [][ (ops' = ops + 1 /\ op'.fn = "add_level"
            /\ (op'.name \in DOMAIN _nameToLevel \/ op'.lvl \in DOMAIN _levelToName))
        => (_levelToName' = _levelToName /\ _nameToLevel' = _nameToLevel) ]_vars

\* the logger of manager self holds exactly the two handlers of one
\* init_default_stream_logger call
DefaultStreamSetup(self) ==
    LET hs == handlers[getLogger(managers[self].name)]
    IN  /\ Len(hs) = 2
        /\ hs[1].dest = stdout /\ hs[1].filter = "stdout_filter"
        /\ hs[2].dest = stderr /\ hs[2].filter = "stderr_filter"

StdoutThreshold(self) == handlers[getLogger(managers[self].name)][1].level

RECURSIVE NoAncestorHandlers(_)
NoAncestorHandlers(logger) ==
    \/ logger = RootLogger
    \/ handlers[Parent(logger)] = <<>> /\ NoAncestorHandlers(Parent(logger))

\* where a record of level lvl may go, for a stdout threshold
OneStreamOnly(lvl, threshold, out) ==
    /\ lvl < WARNING => /\ stderr \notin Range(out)
                        /\ stdout \in Range(out) => lvl >= threshold
    /\ lvl >= WARNING => /\ stdout \notin Range(out)
                         /\ stderr \in Range(out)

\* C4 as claimed: a record logged through a LogManager set up by one
\* init_default_stream_logger call on a logger with no other handlers goes to stdout
\* only (and only at or above the stdout threshold) when below WARNING, and to stderr
\* only from WARNING on.
C4_Original ==
    (op.fn = "log" /\ DefaultStreamSetup(op.self))
        => OneStreamOnly(op.lvl, StdoutThreshold(op.self), written)

\* C4 as amended: the same, when in addition no ancestor of the manager's logger
\* holds a handler.
C4_OneStreamOnly ==
    (op.fn = "log" /\ DefaultStreamSetup(op.self)
        /\ NoAncestorHandlers(getLogger(managers[op.self].name)))
        => OneStreamOnly(op.lvl, StdoutThreshold(op.self), written)

\* a WARNING record logged through a named manager with the default stream setup,
\* below a root logger without handlers, went to stderr alone
C4_Witness ==
    /\ op.fn = "log" /\ op.lvl = WARNING /\ op.name # None
    /\ DefaultStreamSetup(op.self)
    /\ NoAncestorHandlers(getLogger(managers[op.self].name))
    /\ written = <<stderr>>

\* the manager the call op set up, given its result
SetUpBy(o, r) == IF o.fn = "create_default_stream_logger" THEN r.val ELSE o.self

\* C5: right after init_default_stream_logger(debug, verbose) or
\* create_default_stream_logger(debug, verbose) has set up the unnamed manager (whose
\* logger holds no other handlers), a DEBUG record logged through it reaches stdout
\* exactly when debug is True, and a VERBOSE record reaches stdout when verbose is True.
C5_DebugShown ==
    [][ (/\ op.fn \in {"init_default_stream_logger", "create_default_stream_logger"}
         /\ op.name = None /\ ret.exc = NoExc
         /\ op'.fn = "log" /\ op'.self = SetUpBy(op, ret)
         /\ DefaultStreamSetup(SetUpBy(op, ret)))
        => /\ op'.lvl = DEBUG => (op.debug <=> stdout \in Range(written'))
           /\ (op'.lvl = VERBOSE /\ op.verbose) => stdout \in Range(written') ]_vars

\* C9: a record logged through a LogManager reaches every handler of that manager's
\* logger whose threshold is at or below the record's level and whose filter accepts it.
C9_HandlersReceive ==
    op.fn = "log" =>
        \A h \in Range(handlers[getLogger(managers[op.self].name)]) :
            (h.level <= op.lvl /\ create_filter(h.filter, op.lvl))
                => h.dest \in Range(written)

-----------------------------------------------------------------------------
(* Properties of the file handlers, checked under FileSpec *)

\* C10: _prep_log_dir(log_path) raises InputValidationException exactly when the
\* parent directory of log_path exists and is not a directory, and otherwise returns
\* with that parent being a directory; an add_handler call that raises adds no handler.
C10_PrepLogDir ==
    [][ /\ (ops' = ops + 1 /\ op'.fn = "_prep_log_dir")
            => LET log_dir == dirname(op'.path)
               IN  IF exists(fs, log_dir) /\ ~isdir(fs, log_dir)
                   THEN ret'.exc = "InputValidationException"
                   ELSE ret'.exc = NoExc /\ isdir(fs', log_dir)
        /\ (ops' = ops + 1 /\ op'.fn = "add_handler" /\ ret'.exc # NoExc)
            => handlers' = handlers ]_vars

-----------------------------------------------------------------------------
(* Properties of lib/utils.py, checked under UtilSpec *)

\* the classes an exception of class c is an instance of (its method resolution order)
Mro(c) ==
    CASE c = "BaseException" -> {"BaseException"}
      [] c = "Exception" -> {"Exception", "BaseException"}
      [] c = "KeyboardInterrupt" -> {"KeyboardInterrupt", "BaseException"}
      [] c = "InputValidationException" ->
            {"InputValidationException", "Exception", "BaseException"}
      [] c = "FatalRuntimeException" -> {"FatalRuntimeException", "Exception", "BaseException"}
      [] c = "OSError" -> {"OSError", "Exception", "BaseException"}
      [] c = "FileNotFoundError" ->
            {"FileNotFoundError", "OSError", "Exception", "BaseException"}
      [] c = "TypeError" -> {"TypeError", "Exception", "BaseException"}
      [] OTHER -> {}

Listed == Mro(cm.raised) \cap Range(cm.classes) # {}

\* C7: ignore_exceptions(*classes) suppresses the exception raised in its body exactly
\* when it is an instance of a listed class; any other exception propagates unchanged,
\* and a body that raises nothing completes normally.
C7_IgnoreExceptions ==
    cm.ignore \notin {"idle", "body"} =>
        /\ cm.ignore = "suppressed" <=> (cm.raised # NoExc /\ Listed)
        /\ (cm.raised # NoExc /\ ~Listed)
              => (cm.ignore = "propagated" /\ cm.ignore_exc = cm.raised)
        /\ cm.raised = NoExc => cm.ignore = "completed"

\* a FileNotFoundError was suppressed by ignore_exceptions(OSError, ...)
C7_Witness ==
    /\ cm.ignore = "suppressed"
    /\ cm.raised = "FileNotFoundError"
    /\ "OSError" \in Range(cm.classes) /\ "FileNotFoundError" \notin Range(cm.classes)

\* C8: an Exception raised in the body of ignore_exceptions_except(*classes)
\* propagates, as the same exception, exactly when it is an instance of a listed class
\* and is suppressed otherwise; so exactly one of the two context managers suppresses it.
C8_IgnoreExceptionsExcept ==
    (cm.except \notin {"idle", "body"} /\ "Exception" \in Mro(cm.raised)) =>
        /\ cm.except = "propagated" <=> Listed
        /\ cm.except = "propagated" => cm.except_exc = cm.raised
        /\ cm.except = "suppressed" <=> ~Listed
        /\ cm.ignore \notin {"idle", "body"}
              => (cm.ignore = "suppressed") # (cm.except = "suppressed")

\* a TypeError was suppressed by ignore_exceptions_except(OSError, ...) and propagated
\* by ignore_exceptions(OSError, ...)
C8_Witness ==
    /\ cm.raised = "TypeError" /\ cm.classes # <<>> /\ ~Listed
    /\ cm.except = "suppressed" /\ cm.ignore = "propagated"

-----------------------------------------------------------------------------
(* Properties of asyncio_server_test.py, checked under ServerSpec *)

\* C6: once a TestServer is constructed its router holds exactly the routes of the
\* web_routes registry, which is the one entry (GET, "/") bound to get_root; the
\* register decorator returned get_root itself; and every handled GET / adds exactly
\* one to the counter.
C6_OneGetRoute ==
    /\ [](srv.pc = "constructed" =>
            /\ DOMAIN web_routes = {"/"} /\ DOMAIN web_routes["/"] = {"GET"}
            /\ web_routes["/"]["GET"] = "get_root"
            /\ srv.router = {<<"GET", "/", "get_root">>}
            /\ srv.get_root = "get_root")
    /\ [][ (srv.pc = "constructed" /\ srv'.pc = "constructed" /\ srv.listening
                /\ srv'.last = [method |-> "GET", path |-> "/", status |-> 200]
                /\ srv'.port = srv.port /\ srv'.listening)
           => srv'.counter = srv.counter + 1 ]_vars

\* a started server has handled GET / three times
C6_Witness ==
    /\ srv.pc = "constructed" /\ srv.listening
    /\ srv.last = [method |-> "GET", path |-> "/", status |-> 200]
    /\ srv.counter = 3

====
